---- MODULE Spec2Model ----
(***************************************************************************)
(* NodeIRScheduler (lib/Analysis/NodeIRScheduler.cpp): the resource-       *)
(* constrained list scheduler of ONNC.  The module models                  *)
(*   - the graph the pass works on (node list, kinds, inputs, uses),       *)
(*   - InsertLoadStoreNode / HasInsertedLoadStoreNode / BuildDegreeMap,    *)
(*   - the resource ledger m_ExeResUsers with isExeResAvailable,           *)
(*     addExeResUser, updateResList and greedyPickNextNodes,               *)
(*   - runOnModule, one action per position in its body.                   *)
(* Spec drives runOnModule on a family of small graphs; SpecLedger drives  *)
(* the ledger operations on their own, in any order.                       *)
(***************************************************************************)
EXTENDS Integers, Sequences, FiniteSets, TLC

\* ------------------------------------------------------------------ bounds
MaxOps == 2      \* operator nodes of the input graph
MaxEdges == 2    \* input occurrences of the input graph, all nodes together
MaxUnits == 2    \* largest numUnits of a resource class
MaxCost == 2     \* largest cycle count the cost model returns
MaxRuns == 2     \* calls of runOnModule on the same pass object and graph

\* Operators of the input graphs take zero, one or two inputs.
Arities == {0, 1, 2}

\* ---------------------------------------------------------- node handles
Null == 0            \* nullptr
RetNode == 0 - 1     \* the graph's return node (pGraph.outputs() are its inputs)
ParamNode == 0 - 2   \* the graph's param node (pGraph.inputs() are its outputs)
UIntMax == 0 - 3     \* std::numeric_limits<unsigned>::max(), kept symbolic

Res == {"R1", "R2"}  \* the ExeResource objects of the target

\* --------------------------------------------------------------- values
\* A value is named by where it comes from.
Out(n) == <<"out", n>>       \* the output of node n
X == <<"in", 1>>             \* the external input of the graph
D == <<"dangling", 1>>       \* a value bound to no node

\* v->node()
ValNode(v) ==
  IF v[1] = "out" THEN v[2] ELSE IF v[1] = "in" THEN ParamNode ELSE Null

\* n->outputs(): every node of the family has one output.
outputs(n) == <<Out(n)>>

VARIABLES
  backend,        \* m_DLATB is bound
  oracle,         \* the cost model behind m_DLATB->getTTI()
  graph,          \* *pModule.getGraph()
  m_ExeResUsers,  \* the resource ledger
  dmap,           \* DegreeMap of the current run
  worklist,       \* worklist of the current run
  pc,             \* position in runOnModule
  round,          \* iterations of the main loop started in this run
  runs,           \* calls of runOnModule that passed the backend check
  admitRound,     \* node -> iteration in which greedyPickNextNodes returned it
  warnings,       \* "Warning!" lines written by BuildDegreeMap in this run
  result,         \* value returned by the last call of runOnModule
  picked,         \* the nodes the last greedyPickNextNodes returned
  given,          \* pCands as the last greedyPickNextNodes was given it
  lastOp,         \* the ledger operation called last (SpecLedger)
  ret,            \* what that operation returned
  fault           \* the consumer on which the dmap assertion failed

vars == <<backend, oracle, graph, m_ExeResUsers, dmap, worklist, pc, round,
          runs, admitRound, warnings, result, picked, given, lastOp,
          ret, fault>>

\* ----------------------------------------------------------- sequences
RECURSIVE SeqsUpTo(_, _)
SeqsUpTo(S, k) ==
  IF k = 0 THEN {<<>>}
  ELSE LET shorter == SeqsUpTo(S, k - 1)
       IN shorter \cup {Append(s, x) : s \in shorter, x \in S}

Range(s) == {s[i] : i \in 1..Len(s)}
Pos(s, x) == CHOOSE i \in 1..Len(s) : s[i] = x
Count(s, x) == Cardinality({i \in 1..Len(s) : s[i] = x})
EmptyMap == [x \in {} |-> <<>>]

\* ---------------------------------------------------------------- graph
\* uses of v in a freshly imported graph: the consuming nodes in graph
\* order, one entry per input occurrence, then the return node.
UserSeq(occ, n) == [i \in 1..Len(occ) |-> n]

RECURSIVE InitUses(_, _, _, _)
InitUses(insOf, n, i, v) ==
  IF i > n THEN <<>>
  ELSE UserSeq(SelectSeq(insOf[i], LAMBDA w : w = v), i)
         \o InitUses(insOf, n, i + 1, v)

MkGraph(n, kinds, insOf, outs) ==
  LET vals == {Out(i) : i \in 1..n} \cup {X, D}
      used == \E i \in 1..n : X \in Range(insOf[i])
  IN [ nodes  |-> [i \in 1..n |-> i],
       kind   |-> [i \in (1..n) \cup {RetNode} |->
                     IF i = RetNode THEN "Return" ELSE kinds[i]],
       ins    |-> [i \in (1..n) \cup {RetNode} |->
                     IF i = RetNode THEN outs ELSE insOf[i]],
       uses   |-> [v \in vals |->
                     InitUses(insOf, n, 1, v)
                       \o UserSeq(SelectSeq(outs, LAMBDA w : w = v), RetNode)],
       inputs |-> IF used \/ X \in Range(outs) THEN <<X>> ELSE <<>>,
       next   |-> n + 1 ]

\* Input graphs: nodes 1..n in topological order; a node reads outputs of
\* earlier nodes, the external input or the dangling value.  The pass only
\* counts the inputs of a node and walks the uses of a value, so the inputs
\* of a node are listed in one order (Rank); at most one node is of the
\* undefined kind; the graph has no output, or one.
Rank(v) == IF v = D THEN 0 ELSE IF v = X THEN 1 ELSE 1 + v[2]

InputLists(i) ==
  {s \in SeqsUpTo({Out(j) : j \in 1..(i - 1)} \cup {X, D}, 2) :
     /\ Len(s) \in Arities
     /\ \A k \in 1..(Len(s) - 1) : Rank(s[k]) <= Rank(s[k + 1])}

Kinds(n) ==
  {k \in [1..n -> {"Op", "Undefined"}] :
     Cardinality({i \in 1..n : k[i] = "Undefined"}) <= 1}

RECURSIVE SumLen(_, _)
SumLen(f, n) == IF n = 0 THEN 0 ELSE Len(f[n]) + SumLen(f, n - 1)

InputsOf(n) ==
  {f \in [1..n -> InputLists(n)] :
     /\ \A i \in 1..n : f[i] \in InputLists(i)
     /\ SumLen(f, n) <= MaxEdges}

GraphsOf(n) ==
  { MkGraph(n, kinds, insOf, outs) :
      kinds \in Kinds(n),
      insOf \in InputsOf(n),
      outs \in SeqsUpTo({Out(j) : j \in 1..n} \cup {X}, 1) }

Graphs == UNION {GraphsOf(n) : n \in 1..MaxOps}

InList(g, n) == \E i \in 1..Len(g.nodes) : g.nodes[i] = n

\* onnx::Node::isBefore: walks from a->next() to the end of the node list,
\* which is the return node.
isBefore(g, a, b) ==
  IF b = Null \/ a = b THEN FALSE
  ELSE IF a = RetNode THEN InList(g, b)
  ELSE InList(g, b) /\ Pos(g.nodes, a) < Pos(g.nodes, b)

\* onnx::Node::insertBefore
insertBefore(g, n, at) ==
  IF at = RetNode THEN [g EXCEPT !.nodes = Append(@, n)]
  ELSE LET p == Pos(g.nodes, at)
       IN [g EXCEPT !.nodes = SubSeq(@, 1, p - 1) \o <<n>> \o SubSeq(@, p, Len(@))]

\* pGraph.create(kind, inputs): a node with one output, not yet in the list.
create(g, k, inputs) ==
  LET n == g.next
  IN [g EXCEPT !.kind = @ @@ (n :> k),
               !.ins  = @ @@ (n :> inputs),
               !.uses = [v \in DOMAIN @ \cup {Out(n)} |->
                           IF v = Out(n) THEN <<>>
                           ELSE @[v] \o UserSeq(SelectSeq(inputs, LAMBDA w : w = v), n)],
               !.next = n + 1]

\* replaceAllUsesWith left out: the consumers keep reading v.
replaceAllUsesWith_kept(g, v, w) == g

\* v->replaceAllUsesWith(w)
replaceAllUsesWith(g, v, w) ==
  [g EXCEPT !.ins  = [n \in DOMAIN @ |->
                        [k \in 1..Len(@[n]) |-> IF @[n][k] = v THEN w ELSE @[n][k]]],
            !.uses = [@ EXCEPT ![w] = @ \o g.uses[v], ![v] = <<>>]]

\* HasInsertedLoadStoreNode; rbegin() of an empty list is the return node.
HasInsertedLoadStoreNode(g) ==
  Len(g.nodes) > 0 /\ g.kind[g.nodes[Len(g.nodes)]] = "Store"

\* lines 31-40: the use that no other use is before.
RECURSIVE FirstUser(_, _, _)
FirstUser(g, us, first) ==
  IF us = <<>> THEN first
  ELSE LET u == Head(us)
       IN FirstUser(g, Tail(us),
                    IF first = Null THEN u
                    ELSE IF ~isBefore(g, first, u) THEN u ELSE first)

\* lines 50-59
RECURSIVE LastUser(_, _, _)
LastUser(g, us, last) ==
  IF us = <<>> THEN last
  ELSE LET u == Head(us)
       IN LastUser(g, Tail(us),
                   IF last = Null THEN u
                   ELSE IF isBefore(g, last, u) THEN u ELSE last)

\* lines 30-47, for the inputs vs in turn.  insertBefore(nullptr) is a null
\* dereference: the run dies there (ok = FALSE), the graph as it then is.
RECURSIVE InsertLoads(_, _)
InsertLoads(g, vs) ==
  IF vs = <<>> THEN [ok |-> TRUE, g |-> g]
  ELSE LET v     == Head(vs)
           first == FirstUser(g, g.uses[v], Null)
           g1    == create(g, "Load", <<>>)
           loadN == g.next
       IN IF first = Null THEN [ok |-> FALSE, g |-> g1]
          ELSE InsertLoads(replaceAllUsesWith(insertBefore(g1, loadN, first),
                                              v, Out(loadN)),
                           Tail(vs))

\* lines 49-65, for the outputs vs in turn.
RECURSIVE InsertStores(_, _)
InsertStores(g, vs) ==
  IF vs = <<>> THEN [ok |-> TRUE, g |-> g]
  ELSE LET v      == Head(vs)
           last   == LastUser(g, g.uses[v], Null)
           g1     == create(g, "Store", <<v>>)
           storeN == g.next
       IN IF last = Null THEN [ok |-> FALSE, g |-> g1]
          ELSE InsertStores(insertBefore(g1, storeN, last), Tail(vs))

InsertLoadStoreNode(g) ==
  LET l == InsertLoads(g, g.inputs)
  IN IF ~l.ok THEN l ELSE InsertStores(l.g, l.g.ins[RetNode])

\* lines 174-175: the test of line 174 guards an empty statement (the line
\* ends in a semicolon); the call of line 175 is made whatever the test says.
Normalize(g) == InsertLoadStoreNode(g)

\* ------------------------------------------------------------ cost model
\* queryExeResType: "one" puts every node on R1, "parity" alternates by
\* node, "dma" puts Load and Store on R2 and the operators on R1.
ResProfiles == {"one", "parity", "dma"}

queryExeResType(o, g, n) ==
  IF o.profile = "one" THEN "R1"
  ELSE IF o.profile = "parity" THEN (IF n % 2 = 1 THEN "R1" ELSE "R2")
  ELSE IF g.kind[n] \in {"Load", "Store"} THEN "R2" ELSE "R1"

\* getOperatorCost(n, kCycleCount)
getOperatorCost(o, n) ==
  IF o.uniform THEN 1 ELSE 1 + ((n + o.shift) % MaxCost)

numUnits(o, r) == o.units[r]

\* In a scheduling run the classes have the same number of units and the
\* cost of a node follows from its handle.
Oracles ==
  [profile : ResProfiles, uniform : {FALSE}, shift : {0},
   units : {[r \in Res |-> u] : u \in 0..MaxUnits}]

\* For the ledger operations on their own the costs vary as well.
LedgerOracles ==
  {o \in [profile : {"one", "parity"}, uniform : BOOLEAN, shift : 0..(MaxCost - 1),
          units : {[r \in Res |-> u] : u \in 0..MaxUnits}] :
     o.uniform => o.shift = 0}

DefaultOracle ==
  [profile |-> "one", uniform |-> FALSE, shift |-> 0,
   units |-> [r \in Res |-> 0]]

\* ----------------------------------------------------------- degree map
\* lines 88-95 for one node: inputs minus the inputs bound to no node.
Dangling(g, n) == {k \in 1..Len(g.ins[n]) : ValNode(g.ins[n][k]) = Null}

\* DegCnt with the test of line 90 inverted: bound inputs are discounted.
RECURSIVE DegCnt_inverted(_, _, _)
DegCnt_inverted(inputs, k, degcnt) ==
  IF k > Len(inputs) THEN degcnt
  ELSE DegCnt_inverted(inputs, k + 1,
                       IF ValNode(inputs[k]) # Null THEN degcnt - 1 ELSE degcnt)

\* DegCnt without line 94: dangling inputs are counted.
DegCnt_counted(inputs, k, degcnt) == degcnt

RECURSIVE DegCnt(_, _, _)
DegCnt(inputs, k, degcnt) ==
  IF k > Len(inputs) THEN degcnt
  ELSE DegCnt(inputs, k + 1,
              IF ValNode(inputs[k]) = Null THEN degcnt - 1 ELSE degcnt)

\* lines 81-99: dmap and the number of warnings written.
RECURSIVE BuildDegreeMapFrom(_, _, _)
BuildDegreeMapFrom(g, i, acc) ==
  IF i > Len(g.nodes) THEN acc
  ELSE LET n == g.nodes[i]
       IN IF g.kind[n] = "Undefined" THEN BuildDegreeMapFrom(g, i + 1, acc)
          ELSE BuildDegreeMapFrom(g, i + 1,
                 [dmap     |-> (n :> DegCnt(g.ins[n], 1, Len(g.ins[n]))) @@ acc.dmap,
                  warnings |-> acc.warnings + Cardinality(Dangling(g, n))])

BuildDegreeMap(g) ==
  BuildDegreeMapFrom(g, 1, [dmap |-> EmptyMap, warnings |-> 0])

\* lines 180-187 with push_front in place of push_back
RECURSIVE SeedWorklist_reversed(_, _, _)
SeedWorklist_reversed(g, dm, i) ==
  IF i > Len(g.nodes) THEN <<>>
  ELSE LET n == g.nodes[i]
       IN IF g.kind[n] = "Undefined" THEN SeedWorklist_reversed(g, dm, i + 1)
          ELSE IF dm[n] = 0 THEN SeedWorklist_reversed(g, dm, i + 1) \o <<n>>
          ELSE SeedWorklist_reversed(g, dm, i + 1)

\* lines 180-187 with a break after the first push
RECURSIVE SeedWorklist_one(_, _, _)
SeedWorklist_one(g, dm, i) ==
  IF i > Len(g.nodes) THEN <<>>
  ELSE LET n == g.nodes[i]
       IN IF g.kind[n] = "Undefined" THEN SeedWorklist_one(g, dm, i + 1)
          ELSE IF dm[n] = 0 THEN <<n>>
          ELSE SeedWorklist_one(g, dm, i + 1)

\* lines 180-187
RECURSIVE SeedWorklist(_, _, _)
SeedWorklist(g, dm, i) ==
  IF i > Len(g.nodes) THEN <<>>
  ELSE LET n == g.nodes[i]
       IN IF g.kind[n] = "Undefined" THEN SeedWorklist(g, dm, i + 1)
          ELSE IF dm[n] = 0 THEN <<n>> \o SeedWorklist(g, dm, i + 1)
          ELSE SeedWorklist(g, dm, i + 1)

\* --------------------------------------------------------------- ledger
\* line 103 with <= for <
isExeResAvailable_le(o, m, r) == Len(m[r]) <= numUnits(o, r)

\* line 103
isExeResAvailable(o, m, r) == Len(m[r]) < numUnits(o, r)

\* lines 109-111
addExeResUser(o, m, r, n) ==
  [m EXCEPT ![r] = Append(@, [user |-> n, remainCycles |-> getOperatorCost(o, n)])]

\* userList.erase(userList.begin() + i), i counted from 0
EraseAt(s, i) == SubSeq(s, 1, i) \o SubSeq(s, i + 2, Len(s))

\* lines 144-156 with a break at the first candidate whose class is full
RECURSIVE PickScan_stop(_, _, _, _, _)
PickScan_stop(o, g, cands, i, acc) ==
  IF i > Len(cands) THEN acc
  ELSE LET n   == cands[i]
           res == queryExeResType(o, g, n)
           m1  == IF res \in DOMAIN acc.m THEN acc.m ELSE (res :> <<>>) @@ acc.m
       IN IF isExeResAvailable(o, m1, res)
          THEN PickScan_stop(o, g, cands, i + 1,
                             [m      |-> addExeResUser(o, m1, res, n),
                              next   |-> Append(acc.next, n),
                              rmList |-> Append(acc.rmList, i - 1)])
          ELSE [acc EXCEPT !.m = m1]

\* lines 144-156: one scan of pCands
RECURSIVE PickScan(_, _, _, _, _)
PickScan(o, g, cands, i, acc) ==
  IF i > Len(cands) THEN acc
  ELSE LET n   == cands[i]
           res == queryExeResType(o, g, n)
           m1  == IF res \in DOMAIN acc.m THEN acc.m ELSE (res :> <<>>) @@ acc.m
       IN IF isExeResAvailable(o, m1, res)
          THEN PickScan(o, g, cands, i + 1,
                        [m      |-> addExeResUser(o, m1, res, n),
                         next   |-> Append(acc.next, n),
                         rmList |-> Append(acc.rmList, i - 1)])
          ELSE PickScan(o, g, cands, i + 1, [acc EXCEPT !.m = m1])

\* lines 158-159 with a forward iteration over rmList
RECURSIVE EraseAll_forward(_, _, _)
EraseAll_forward(s, rmList, k) ==
  IF k = 0 THEN s
  ELSE EraseAll_forward(EraseAt(s, rmList[Len(rmList) - k + 1]), rmList, k - 1)

\* lines 158-159: erase the picked positions, last first
RECURSIVE EraseAll(_, _, _)
EraseAll(s, rmList, k) ==
  IF k = 0 THEN s ELSE EraseAll(EraseAt(s, rmList[k]), rmList, k - 1)

\* lines 139-162: the ledger, pCands and the returned nodes afterwards
greedyPickNextNodes(o, g, m, pCands) ==
  LET scan == PickScan(o, g, pCands, 1, [m |-> m, next |-> <<>>, rmList |-> <<>>])
  IN [m      |-> scan.m,
      pCands |-> EraseAll(pCands, scan.rmList, Len(scan.rmList)),
      next   |-> scan.next]

\* lines 117-120
AllRemain(m) ==
  UNION {{m[r][i].remainCycles : i \in 1..Len(m[r])} : r \in DOMAIN m}

MinCycle(m) ==
  IF AllRemain(m) = {} THEN UIntMax
  ELSE CHOOSE c \in AllRemain(m) : \A d \in AllRemain(m) : c <= d

\* lines 126-130: the list after the subtraction, and rmList
Subtracted(userList, minCycle) ==
  [i \in 1..Len(userList) |->
     [userList[i] EXCEPT !.remainCycles = @ - minCycle]]

RECURSIVE RmList(_, _)
RmList(userList, i) ==
  IF i > Len(userList) THEN <<>>
  ELSE IF userList[i].remainCycles = 0 THEN <<i - 1>> \o RmList(userList, i + 1)
  ELSE RmList(userList, i + 1)

\* lines 133-134 with i > 0 for the loop test: position 0 is not erased
RECURSIVE ReleaseLoop_gt(_, _, _)
ReleaseLoop_gt(userList, rmList, i) ==
  IF i < 1 THEN userList
  ELSE ReleaseLoop_gt(EraseAt(userList, i), rmList, i - 1)

\* lines 133-134: the loop erases position i, its own counter, for
\* i = rmList.size() - 1 down to 0
RECURSIVE ReleaseLoop(_, _, _)
ReleaseLoop(userList, rmList, i) ==
  IF i < 0 THEN userList
  ELSE ReleaseLoop(EraseAt(userList, i), rmList, i - 1)

\* lines 114-137
updateResList(m) ==
  LET minCycle == MinCycle(m)
  IN [m   |-> [r \in DOMAIN m |->
                 LET userList == Subtracted(m[r], minCycle)
                     rmList   == RmList(userList, 1)
                 IN ReleaseLoop(userList, rmList, Len(rmList) - 1)],
      ret |-> minCycle]

\* m_ExeResUsers.clear()
clear == EmptyMap

\* ---------------------------------------------------------- propagation
\* line 201 left out: the degree is not decremented
Dec_kept(d) == d

\* it->second -= 1 on an unsigned
Dec(d) == IF d = 0 THEN UIntMax ELSE d - 1

\* line 195 left out: the return node is treated as any consumer.
IsReturnUser_never(g, u) == FALSE

\* line 195
IsReturnUser(g, u) == g.kind[u] = "Return"

\* lines 194-204 with the test of line 202 left out: every decremented
\* consumer is pushed.
RECURSIVE PropagateUses_always(_, _, _)
PropagateUses_always(g, us, st) ==
  IF us = <<>> \/ st.fault # Null THEN st
  ELSE LET u == Head(us)
       IN IF IsReturnUser(g, u) THEN PropagateUses_always(g, Tail(us), st)
          ELSE IF u \notin DOMAIN st.dmap THEN [st EXCEPT !.fault = u]
          ELSE PropagateUses_always(g, Tail(us),
                 [st EXCEPT !.dmap = [@ EXCEPT ![u] = Dec(st.dmap[u])],
                            !.worklist = Append(@, u)])

\* lines 194-204 with the assertion of lines 198-199 replaced by a continue
RECURSIVE PropagateUses_silent(_, _, _)
PropagateUses_silent(g, us, st) ==
  IF us = <<>> THEN st
  ELSE LET u == Head(us)
       IN IF IsReturnUser(g, u) \/ u \notin DOMAIN st.dmap
          THEN PropagateUses_silent(g, Tail(us), st)
          ELSE LET d == Dec(st.dmap[u])
               IN PropagateUses_silent(g, Tail(us),
                    [st EXCEPT !.dmap = [@ EXCEPT ![u] = d],
                               !.worklist = IF d = 0 THEN Append(@, u) ELSE @])

\* lines 194-204 for the uses us of one value; stops at a failed assertion
RECURSIVE PropagateUses(_, _, _)
PropagateUses(g, us, st) ==
  IF us = <<>> \/ st.fault # Null THEN st
  ELSE LET u == Head(us)
       IN IF IsReturnUser(g, u) THEN PropagateUses(g, Tail(us), st)
          ELSE IF u \notin DOMAIN st.dmap THEN [st EXCEPT !.fault = u]
          ELSE LET d == Dec(st.dmap[u])
               IN PropagateUses(g, Tail(us),
                    [st EXCEPT !.dmap = [@ EXCEPT ![u] = d],
                               !.worklist = IF d = 0 THEN Append(@, u) ELSE @])

\* lines 192-205 for the outputs vs of one picked node
RECURSIVE PropagateValues(_, _, _)
PropagateValues(g, vs, st) ==
  IF vs = <<>> THEN st
  ELSE PropagateValues(g, Tail(vs), PropagateUses(g, g.uses[Head(vs)], st))

\* lines 191-206 for the picked nodes ns
RECURSIVE Propagate(_, _, _)
Propagate(g, ns, st) ==
  IF ns = <<>> THEN st
  ELSE Propagate(g, Tail(ns), PropagateValues(g, outputs(Head(ns)), st))

\* ------------------------------------------------------------ runOnModule
Init ==
  /\ backend \in BOOLEAN
  /\ graph \in Graphs
  /\ oracle \in Oracles
  /\ backend \/ oracle = DefaultOracle
  /\ m_ExeResUsers = EmptyMap
  /\ dmap = EmptyMap
  /\ worklist = <<>>
  /\ pc = "idle"
  /\ round = 0
  /\ runs = 0
  /\ admitRound = EmptyMap
  /\ warnings = 0
  /\ result = "none"
  /\ picked = <<>>
  /\ given = <<>>
  /\ lastOp = "none"
  /\ ret = 0
  /\ fault = Null

AtEntry == pc \in {"idle", "done", "failed"}

\* The backend check made after the normalization instead of first.
RunFail_late ==
  /\ AtEntry
  /\ ~backend
  /\ pc' = "failed"
  /\ result' = "kPassFailure"
  /\ graph' = Normalize(graph).g
  /\ UNCHANGED <<backend, oracle, m_ExeResUsers, dmap, worklist, round,
                 runs, admitRound, warnings, picked, given, lastOp, ret, fault>>

\* lines 166-169
RunFail ==
  /\ AtEntry
  /\ ~backend
  /\ pc' = "failed"
  /\ result' = "kPassFailure"
  /\ UNCHANGED <<backend, oracle, graph, m_ExeResUsers, dmap, worklist, round,
                 runs, admitRound, warnings, picked, given, lastOp, ret, fault>>

\* lines 166-187: the backend is bound; clear(), normalization, degree map
\* and seeding.  A null dereference in InsertLoadStoreNode ends the process.
RunEnter ==
  /\ AtEntry
  /\ backend
  /\ runs < MaxRuns
  /\ LET norm == Normalize(graph)
         deg  == BuildDegreeMap(norm.g)
     IN /\ graph' = norm.g
        /\ m_ExeResUsers' = clear
        /\ IF norm.ok
           THEN /\ pc' = "loop"
                /\ dmap' = deg.dmap
                /\ warnings' = deg.warnings
                /\ worklist' = SeedWorklist(norm.g, deg.dmap, 1)
           ELSE /\ pc' = "crash"
                /\ dmap' = EmptyMap
                /\ warnings' = 0
                /\ worklist' = <<>>
  /\ runs' = runs + 1
  /\ round' = 0
  /\ admitRound' = EmptyMap
  /\ fault' = Null
  /\ picked' = <<>>
  /\ given' = <<>>
  /\ UNCHANGED <<backend, oracle, result, lastOp, ret>>

\* The main loop is followed for one iteration more than the graph has
\* nodes; an iteration that picks nothing changes nothing, and the loop then
\* repeats it for ever.
MaxRounds(g) == Len(g.nodes) + 1

\* lines 189-207: one iteration of the main loop
Round ==
  /\ pc = "loop"
  /\ worklist # <<>>
  /\ round < MaxRounds(graph)
  /\ LET pick == greedyPickNextNodes(oracle, graph, m_ExeResUsers, worklist)
         prop == Propagate(graph, pick.next,
                           [dmap |-> dmap, worklist |-> pick.pCands, fault |-> Null])
     IN /\ m_ExeResUsers' = pick.m
        /\ dmap' = prop.dmap
        /\ worklist' = prop.worklist
        /\ fault' = prop.fault
        /\ pc' = IF prop.fault = Null THEN "loop" ELSE "fault"
        /\ admitRound' = [n \in Range(pick.next) |-> round + 1] @@ admitRound
        /\ picked' = pick.next
        /\ given' = worklist
  /\ round' = round + 1
  /\ UNCHANGED <<backend, oracle, graph, runs, warnings, result, lastOp, ret>>

\* lines 189, 209: the worklist is empty
RunReturn ==
  /\ pc = "loop"
  /\ worklist = <<>>
  /\ pc' = "done"
  /\ result' = "kModuleNoChanged"
  /\ UNCHANGED <<backend, oracle, graph, m_ExeResUsers, dmap, worklist, round,
                 runs, admitRound, warnings, picked, given, lastOp, ret, fault>>

Next == RunFail \/ RunEnter \/ Round \/ RunReturn

Spec == Init /\ [][Next]_vars

\* ------------------------------------------------- the ledger on its own
\* The nodes the ledger is asked about: MaxOps operators, no edges.
LedgerGraph ==
  MkGraph(MaxOps, [i \in 1..MaxOps |-> "Op"], [i \in 1..MaxOps |-> <<>>], <<>>)

\* Candidate lists: distinct nodes, in any order.
CandLists ==
  {s \in SeqsUpTo(1..MaxOps, MaxOps) :
     s # <<>> /\ \A i, j \in 1..Len(s) : i # j => s[i] # s[j]}

LedgerInit ==
  /\ backend = TRUE
  /\ graph = LedgerGraph
  /\ oracle \in LedgerOracles
  /\ m_ExeResUsers = EmptyMap
  /\ dmap = EmptyMap
  /\ worklist = <<>>
  /\ pc = "ledger"
  /\ round = 0
  /\ runs = 0
  /\ admitRound = EmptyMap
  /\ warnings = 0
  /\ result = "none"
  /\ picked = <<>>
  /\ given = <<>>
  /\ lastOp = "none"
  /\ ret = 0
  /\ fault = Null

\* a call of greedyPickNextNodes(pCands)
CallGreedyPick ==
  /\ pc = "ledger"
  /\ \E pCands \in CandLists :
       LET pick == greedyPickNextNodes(oracle, graph, m_ExeResUsers, pCands)
       IN /\ m_ExeResUsers' = pick.m
          /\ worklist' = pick.pCands
          /\ picked' = pick.next
          /\ given' = pCands
  /\ lastOp' = "greedyPickNextNodes"
  /\ UNCHANGED <<backend, oracle, graph, dmap, pc, round, runs, admitRound,
                 warnings, result, ret, fault>>

\* a call of updateResList()
CallUpdateResList ==
  /\ pc = "ledger"
  /\ LET upd == updateResList(m_ExeResUsers)
     IN /\ m_ExeResUsers' = upd.m
        /\ ret' = upd.ret
  /\ lastOp' = "updateResList"
  /\ UNCHANGED <<backend, oracle, graph, dmap, worklist, pc, round, runs,
                 admitRound, warnings, result, picked, given, fault>>

LedgerNext == CallGreedyPick \/ CallUpdateResList

SpecLedger == LedgerInit /\ [][LedgerNext]_vars

\* ================================================================ claims
ListNodes(g) == Range(g.nodes)
NonSentinel(g) == {n \in ListNodes(g) : g.kind[n] # "Undefined"}
\* the nodes that produce an input of n
Producers(g, n) ==
  {ValNode(g.ins[n][k]) : k \in 1..Len(g.ins[n])} \ {Null, ParamNode}
InLoop == pc \in {"loop", "done", "fault"}
Admitted == DOMAIN admitRound

\* C1 - Dependency soundness: a node admitted in round r has every producer
\* of its inputs admitted too, in a round no later than r.
C1_DependencySound ==
  InLoop =>
    \A n \in Admitted : \A p \in Producers(graph, n) :
      p \in Admitted /\ admitRound[p] <= admitRound[n]

\* C1 witness: a node with a producer has been admitted after the first round.
C1_Witness ==
  /\ InLoop
  /\ \E n \in Admitted : admitRound[n] >= 2 /\ Producers(graph, n) # {}

\* C2 - Capacity invariant: no resource class ever has more users than
\* numUnits, whatever greedyPickNextNodes and updateResList calls were made.
C2_Capacity ==
  \A r \in DOMAIN m_ExeResUsers : Len(m_ExeResUsers[r]) <= numUnits(oracle, r)

\* C2 witness: a pick filled a class to its capacity and left a candidate out.
C2_Witness ==
  /\ lastOp = "greedyPickNextNodes"
  /\ worklist # <<>>
  /\ picked # <<>>
  /\ \E r \in DOMAIN m_ExeResUsers :
       numUnits(oracle, r) >= 1 /\ Len(m_ExeResUsers[r]) = numUnits(oracle, r)

\* C3 - Termination: the main loop runs for at most as many rounds as the
\* graph has non-sentinel nodes, then returns.  Stated for the cost models
\* in which every class has a unit, where a run that retires its users can
\* always go on.
C3_Termination ==
  (InLoop /\ \A r \in Res : numUnits(oracle, r) >= 1)
    => round <= Cardinality(NonSentinel(graph))

\* C4 - Time-Advance: between two consecutive rounds the ledger is advanced,
\* so every user admitted in an earlier round that still occupies a unit has
\* fewer cycles left than it was admitted with.
C4_TimeAdvance ==
  (pc = "loop" /\ round >= 2) =>
    \A r \in DOMAIN m_ExeResUsers : \A i \in 1..Len(m_ExeResUsers[r]) :
      LET u == m_ExeResUsers[r][i]
      IN admitRound[u.user] < round =>
           u.remainCycles < getOperatorCost(oracle, u.user)

\* C5 - Idempotent normalization: entering runOnModule on a graph whose last
\* node is a Store inserts no node.
C5_Idempotent ==
  [][(AtEntry /\ backend /\ pc' = "loop" /\ HasInsertedLoadStoreNode(graph))
       => graph'.nodes = graph.nodes]_vars

\* what updateResList is to do with one user list
Advanced(userList, m) ==
  LET dec == [i \in 1..Len(userList) |->
                [userList[i] EXCEPT !.remainCycles = @ - m]]
  IN SelectSeq(dec, LAMBDA u : u.remainCycles > 0)

\* C6 - advance(): on a ledger with a user updateResList returns the least
\* remainCycles m, takes m off every user and removes exactly the users that
\* reached 0, the others keeping their order.
C6_Advance ==
  [][(lastOp' = "updateResList" /\ AllRemain(m_ExeResUsers) # {})
       => /\ \A c \in AllRemain(m_ExeResUsers) : ret' <= c
          /\ ret' \in AllRemain(m_ExeResUsers)
          /\ m_ExeResUsers' =
               [r \in DOMAIN m_ExeResUsers |-> Advanced(m_ExeResUsers[r], ret')]]_vars

\* C7 - Configuration fault: without a backend runOnModule returns Failure
\* and neither the graph nor the ledger changes.
C7_ConfigFault ==
  [][(AtEntry /\ ~backend)
       => /\ result' = "kPassFailure"
          /\ graph' = graph
          /\ m_ExeResUsers' = m_ExeResUsers]_vars

\* C7 witness: a call has failed on a graph the normalization would change.
C7_Witness ==
  /\ ~backend
  /\ pc = "failed"
  /\ result = "kPassFailure"
  /\ graph.ins[RetNode] # <<>>

\* C8 - Boundary invariant: after the normalization of a graph whose
\* external inputs all have a consumer, no external input has a consumer
\* left, its former consumers read the output of a Load created for it, and
\* every external output is the input of a Store created for it.
C8_Boundary ==
  [][(AtEntry /\ backend /\ pc' = "loop"
        /\ \A i \in 1..Len(graph.inputs) : graph.uses[graph.inputs[i]] # <<>>)
       => /\ \A i \in 1..Len(graph.inputs) :
               LET v == graph.inputs[i]
               IN /\ graph'.uses[v] = <<>>
                  /\ \A n \in DOMAIN graph'.ins : v \notin Range(graph'.ins[n])
                  /\ \E l \in DOMAIN graph'.kind \ DOMAIN graph.kind :
                       /\ graph'.kind[l] = "Load"
                       /\ InList(graph', l)
                       /\ \A u \in Range(graph.uses[v]) :
                            /\ u \in Range(graph'.uses[Out(l)])
                            /\ Count(graph'.ins[u], Out(l)) = Count(graph.ins[u], v)
          /\ \A k \in 1..Len(graph'.ins[RetNode]) :
               \E st \in DOMAIN graph'.kind \ DOMAIN graph.kind :
                 /\ graph'.kind[st] = "Store"
                 /\ InList(graph', st)
                 /\ graph'.ins[st] = <<graph'.ins[RetNode][k]>>
                 /\ st \in Range(graph'.uses[graph'.ins[RetNode][k]])]_vars

\* C8 witness: a normalized graph with a Load and a Store in its list.
C8_Witness ==
  /\ pc = "loop"
  /\ runs = 1
  /\ \E l, st \in ListNodes(graph) :
       graph.kind[l] = "Load" /\ graph.kind[st] = "Store"

\* C9 - Initial degree: BuildDegreeMap gives every node that is not of the
\* undefined kind its number of inputs less the dangling ones, writes one
\* warning per dangling input, and gives undefined nodes no entry.
C9_InitialDegree ==
  (pc = "loop" /\ round = 0) =>
    /\ DOMAIN dmap = NonSentinel(graph)
    /\ \A n \in NonSentinel(graph) :
         dmap[n] = Len(graph.ins[n]) - Count(graph.ins[n], D)
    /\ LET danglingUses ==
             UNION {{<<n, k>> : k \in {j \in 1..Len(graph.ins[n]) : graph.ins[n][j] = D}} :
                      n \in NonSentinel(graph)}
       IN warnings = Cardinality(danglingUses)

\* C9 witness: a node with a dangling and a produced input has degree 1,
\* one warning was written, and an undefined node is in the graph.
C9_Witness ==
  /\ pc = "loop"
  /\ round = 0
  /\ warnings = 1
  /\ \E n \in NonSentinel(graph) :
       /\ Len(graph.ins[n]) = 2
       /\ D \in Range(graph.ins[n])
       /\ dmap[n] = 1
  /\ \E n \in ListNodes(graph) : graph.kind[n] = "Undefined"

\* C10 - Return sentinel: the return node is never on the worklist, has no
\* degree of its own, and the run never stops on it.
C10_ReturnSentinel ==
  /\ RetNode \notin Range(worklist)
  /\ RetNode \notin DOMAIN dmap
  /\ RetNode \notin Admitted
  /\ fault # RetNode

\* C10 witness: a run has ended in which a node read by the return node was
\* admitted.
C10_Witness ==
  /\ pc = "done"
  /\ \E n \in Admitted : RetNode \in Range(graph.uses[Out(n)])

NoDup(s) == \A i, j \in 1..Len(s) : i # j => s[i] # s[j]

\* C11 - Worklist entry exactly once: a node is on the worklist or admitted
\* exactly when its degree is zero, it is never there twice, a round admits
\* no node that was admitted before, and no degree wraps below zero.
C11_EntersOnce ==
  [][InLoop' =>
       /\ NoDup(worklist')
       /\ Range(worklist') \cap Admitted' = {}
       /\ \A n \in DOMAIN dmap' :
            /\ dmap'[n] # UIntMax
            /\ (dmap'[n] = 0) <=> (n \in Range(worklist') \cup Admitted')
       /\ (round' = round + 1) =>
            /\ NoDup(picked')
            /\ Range(picked') \cap Admitted = {}]_vars

\* C11 witness: a node whose degree was brought to zero by two decrements
\* has been admitted.
C11_Witness ==
  /\ InLoop
  /\ \E n \in Admitted :
       /\ Cardinality({k \in 1..Len(graph.ins[n]) :
                         ValNode(graph.ins[n][k]) \in Admitted}) = 2
       /\ dmap[n] = 0

Users(m, r) == IF r \in DOMAIN m THEN m[r] ELSE <<>>

\* the elements of s at the positions of P, in the order of s
Sub(s, P) ==
  LET idx == SelectSeq([i \in 1..Len(s) |-> i], LAMBDA i : i \in P)
  IN [k \in 1..Len(idx) |-> s[idx[k]]]

ClassOf(n) == queryExeResType(oracle, graph, n)

\* The positions of cands a single left-to-right scan admits from ledger m:
\* position i is in exactly when its class has, with the earlier admissions
\* of the scan, fewer users than units.
IsAdmitSet(P, m, cands) ==
  \A i \in 1..Len(cands) :
    (i \in P) <=>
      Len(Users(m, ClassOf(cands[i])))
        + Cardinality({j \in P : j < i /\ ClassOf(cands[j]) = ClassOf(cands[i])})
      < numUnits(oracle, ClassOf(cands[i]))

IsPickStep == lastOp' = "greedyPickNextNodes" \/ round' = round + 1

\* C12 - Greedy-Admit rule: one scan of the candidates in order admits a
\* candidate exactly when its class has a free unit at the time it is
\* examined; the admitted nodes are returned and entered in the ledger in
\* candidate order, and the others stay queued in their relative order.
C12_GreedyAdmit ==
  [][IsPickStep =>
       \E P \in SUBSET (1..Len(given')) :
         /\ IsAdmitSet(P, m_ExeResUsers, given')
         /\ picked' = Sub(given', P)
         /\ Len(worklist') >= Len(given') - Cardinality(P)
         /\ SubSeq(worklist', 1, Len(given') - Cardinality(P))
              = Sub(given', (1..Len(given')) \ P)
         /\ \A k \in (Len(given') - Cardinality(P) + 1)..Len(worklist') :
              worklist'[k] \notin Range(given')
         /\ \A r \in Res :
              Users(m_ExeResUsers', r) =
                Users(m_ExeResUsers, r) \o
                  [k \in 1..Len(SelectSeq(picked', LAMBDA n : ClassOf(n) = r)) |->
                     [user |-> SelectSeq(picked', LAMBDA n : ClassOf(n) = r)[k],
                      remainCycles |->
                        getOperatorCost(oracle,
                          SelectSeq(picked', LAMBDA n : ClassOf(n) = r)[k])]]]_vars

\* C12 witness: a scan admitted a candidate, which took the last unit of
\* its class, and left a later candidate of the same class queued.
C12_Witness ==
  /\ lastOp = "greedyPickNextNodes"
  /\ \E i, j \in 1..Len(given) :
       /\ i < j
       /\ ClassOf(given[i]) = ClassOf(given[j])
       /\ given[i] \in Range(picked)
       /\ given[j] \notin Range(picked) /\ given[j] \in Range(worklist)

\* C13 as stated - No look-ahead past a blocked candidate: a candidate
\* queued behind a candidate the round left blocked is not admitted in that
\* round.
C13_NoLookAhead ==
  InLoop =>
    \A i, j \in 1..Len(given) :
      (i < j /\ given[i] \notin Range(picked)) => given[j] \notin Range(picked)

\* C13 amended - the scan goes on past a blocked candidate: every candidate
\* of the round is examined, and one is left queued only when its own class
\* has no free unit, whatever was blocked before it.
C13_ScanContinues ==
  InLoop =>
    \A i \in 1..Len(given) :
      given[i] \notin Range(picked) =>
        Len(Users(m_ExeResUsers, ClassOf(given[i])))
          >= numUnits(oracle, ClassOf(given[i]))

\* C13 witness: a round left a candidate blocked and admitted a candidate
\* queued behind it.
C13_Witness ==
  /\ InLoop
  /\ \E i, j \in 1..Len(given) :
       /\ i < j
       /\ given[i] \notin Range(picked)
       /\ given[j] \in Range(picked)

\* s lists nodes of g in the order of the node list
InGraphOrder(g, s) ==
  \A i, j \in 1..Len(s) : i < j => Pos(g.nodes, s[i]) < Pos(g.nodes, s[j])

\* C14 as stated - Worklist order: at the start of every round the worklist
\* is ordered by graph order.
C14_AlwaysGraphOrder == pc = "loop" => InGraphOrder(graph, worklist)

\* the use lists of the nodes ns[i..last], one after the other, each as far
\* as the propagation from degree map dm reaches
RECURSIVE UsesInTurn(_, _, _, _, _)
UsesInTurn(g, dm, ns, i, last) ==
  IF i > last THEN <<>>
  ELSE LET us == g.uses[Out(ns[i])]
           M  == {j \in 1..Len(us) :
                    g.kind[us[j]] # "Return" /\ us[j] \notin DOMAIN dm}
           m  == IF M = {} THEN Len(us) + 1
                 ELSE CHOOSE j \in M : \A k \in M : j <= k
       IN SubSeq(us, 1, m - 1) \o UsesInTurn(g, dm, ns, i + 1, last)

\* the nodes whose degree the propagation of ns brings to zero, in the
\* order of the decrements that do so: the consumer at position j of the
\* uses in turn, when that use is its dm-th
NewlyReady(g, dm, ns) ==
  LET F  == {i \in 1..Len(ns) :
               \E j \in 1..Len(g.uses[Out(ns[i])]) :
                 /\ g.kind[g.uses[Out(ns[i])][j]] # "Return"
                 /\ g.uses[Out(ns[i])][j] \notin DOMAIN dm}
      last == IF F = {} THEN Len(ns) ELSE CHOOSE i \in F : \A k \in F : i <= k
      us == UsesInTurn(g, dm, ns, 1, last)
      at == SelectSeq([j \in 1..Len(us) |-> j],
                      LAMBDA j : /\ us[j] \in DOMAIN dm
                                 /\ Cardinality({k \in 1..j : us[k] = us[j]})
                                      = dm[us[j]])
  IN [k \in 1..Len(at) |-> us[at[k]]]

\* C14 amended - the worklist is in graph order at the start of the first
\* round only, where it holds the nodes seeded with degree zero; at the
\* start of a later round it holds the candidates the round before left
\* blocked, in their former order, and behind them the nodes that became
\* ready, in the order their degree reached zero.
C14_WorklistOrder ==
  [][/\ (pc' = "loop" /\ round' = 0) =>
          /\ InGraphOrder(graph', worklist')
          /\ Range(worklist') = {n \in NonSentinel(graph') : dmap'[n] = 0}
     /\ (round' = round + 1) =>
          worklist' = SelectSeq(given', LAMBDA n : n \notin Range(picked'))
                        \o NewlyReady(graph, dmap, picked')]_vars

\* C14 witness: the first round began with several seeded nodes and left
\* one blocked; the second round begins with that node in front of a newly
\* ready node that is earlier in the graph.
C14_Witness ==
  /\ pc = "loop" /\ round = 1
  /\ Len(given) >= 2
  /\ \E i, j \in 1..Len(worklist) :
       /\ i < j
       /\ worklist[i] \in Range(given)
       /\ worklist[j] \notin Range(given)
       /\ Pos(graph.nodes, worklist[j]) < Pos(graph.nodes, worklist[i])

\* position in graph order; the return node closes the list
PosR(g, n) == IF n = RetNode THEN Len(g.nodes) + 1 ELSE Pos(g.nodes, n)

\* boundary node b stands immediately before t: nothing is between them but
\* boundary nodes created after b
ImmediatelyBefore(g, b, t) ==
  /\ PosR(g, b) < PosR(g, t)
  /\ \A k \in (PosR(g, b) + 1)..(PosR(g, t) - 1) :
       g.kind[g.nodes[k]] \in {"Load", "Store"} /\ g.nodes[k] > b

Earliest(g, C) == CHOOSE c \in C : \A d \in C : PosR(g, c) <= PosR(g, d)
Latest(g, C) == CHOOSE c \in C : \A d \in C : PosR(g, c) >= PosR(g, d)

\* the consumers of v there were when boundary node b was created
ConsumersThen(g, v, b) ==
  {u \in Range(g.uses[v]) : u # b /\ ~(g.kind[u] = "Store" /\ u > b)}

\* C15 - Boundary node placement: a Load stands immediately before the
\* earliest consumer of the value it loads, a Store immediately before the
\* latest consumer of the value it stores (the latest node of the list that
\* reads it, or the return node).
C15_Placement ==
  \A b \in ListNodes(graph) :
    /\ graph.kind[b] = "Load" =>
         ImmediatelyBefore(graph, b,
                           Earliest(graph, ConsumersThen(graph, Out(b), b)))
    /\ graph.kind[b] = "Store" =>
         LET C == ConsumersThen(graph, graph.ins[b][1], b)
         IN \/ ImmediatelyBefore(graph, b, Latest(graph, C))
            \/ C \ {RetNode} # {}
                 /\ ImmediatelyBefore(graph, b, Latest(graph, C \ {RetNode}))

RECURSIVE SumOver(_, _)
SumOver(S, f) ==
  IF S = {} THEN 0
  ELSE LET x == CHOOSE y \in S : TRUE IN f[x] + SumOver(S \ {x}, f)

\* the input occurrences of n that a node produces
Edges(g, n) == {k \in 1..Len(g.ins[n]) : ValNode(g.ins[n][k]) # Null}

\* the edges into the consumers of C
EdgeCount(g, C) == SumOver(C, [n \in C |-> Cardinality(Edges(g, n))])

\* C16 as stated - Degree conservation: the initial degrees add up to the
\* number of edges of the graph, dangling inputs and the inputs of the
\* return node left out.
C16_AllEdges ==
  (pc = "loop" /\ round = 0) =>
    SumOver(DOMAIN dmap, dmap) = EdgeCount(graph, ListNodes(graph))

\* C16 amended - the initial degrees add up to the number of edges into the
\* nodes that are not of the undefined kind, and between rounds the degree
\* of a node is the number of its edges whose producer is not yet admitted:
\* every decrement took one edge, and no edge was taken twice.
C16_Conservation ==
  /\ (pc = "loop" /\ round = 0) =>
       SumOver(DOMAIN dmap, dmap) = EdgeCount(graph, NonSentinel(graph))
  /\ pc \in {"loop", "done"} =>
       \A n \in DOMAIN dmap :
         dmap[n] = Cardinality({k \in Edges(graph, n) :
                                  ValNode(graph.ins[n][k]) \notin Admitted})

\* C16 witness: degrees were built for a graph in which a node of the
\* undefined kind reads the output of a node, and another consumer has an
\* edge.
C16_Witness ==
  /\ pc = "loop" /\ round = 0
  /\ \E u \in ListNodes(graph) :
       graph.kind[u] = "Undefined" /\ Edges(graph, u) # {}
  /\ SumOver(DOMAIN dmap, dmap) >= 1

\* the positions of the use list us at which a consumer has no degree
Missing(g, dm, us) ==
  {j \in 1..Len(us) : g.kind[us[j]] # "Return" /\ us[j] \notin DOMAIN dm}

Least(S) == CHOOSE i \in S : \A j \in S : i <= j

\* the uses of the output of n that the propagation reaches: all of them,
\* or those in front of the first consumer without a degree
Reached(g, dm, n) ==
  LET us == g.uses[Out(n)]
  IN IF Missing(g, dm, us) = {} THEN us
     ELSE SubSeq(us, 1, Least(Missing(g, dm, us)) - 1)

\* the positions of ns whose node has a consumer without a degree
FaultyPicks(g, dm, ns) ==
  {i \in 1..Len(ns) : Missing(g, dm, g.uses[Out(ns[i])]) # {}}

\* the decrements node u is to get when the nodes ns are propagated up to
\* the first consumer without a degree
Decrements(g, dm, ns, u) ==
  LET last == IF FaultyPicks(g, dm, ns) = {} THEN Len(ns)
              ELSE Least(FaultyPicks(g, dm, ns))
  IN SumOver(1..last, [i \in 1..last |-> Count(Reached(g, dm, ns[i]), u)])

\* C17 - Internal-consistency fault: a round stops in the fault state
\* exactly when a consumer, other than the return node, of an admitted
\* node's output has no degree; the run stops at the first such consumer,
\* which gets no degree and is not pushed, the consumers behind it are not
\* reached, and the consumer is a node of the undefined kind.
C17_Fault ==
  [][(round' = round + 1) =>
       /\ (pc' = "fault") <=> (FaultyPicks(graph, dmap, picked') # {})
       /\ DOMAIN dmap' = DOMAIN dmap
       /\ \A u \in DOMAIN dmap :
            dmap'[u] = dmap[u] - Decrements(graph, dmap, picked', u)
       /\ (pc' = "fault") =>
            LET n  == picked'[Least(FaultyPicks(graph, dmap, picked'))]
                us == graph.uses[Out(n)]
            IN /\ fault' = us[Least(Missing(graph, dmap, us))]
               /\ fault' \notin Range(worklist')
               /\ graph.kind[fault'] = "Undefined"]_vars

\* C17 witness: a run has stopped on a consumer of the undefined kind that
\* has no degree and reads the output of a node admitted in the round.
C17_Witness ==
  /\ pc = "fault"
  /\ graph.kind[fault] = "Undefined"
  /\ fault \notin DOMAIN dmap
  /\ \E n \in Range(picked) : fault \in Range(graph.uses[Out(n)])

\* the users of every class, one list
RECURSIVE AllUsers(_, _)
AllUsers(m, R) ==
  IF R = {} THEN <<>>
  ELSE LET r == CHOOSE x \in R : TRUE
       IN [i \in 1..Len(m[r]) |-> m[r][i].user] \o AllUsers(m, R \ {r})

\* C18 - Completeness on termination: when the main loop has ended on a
\* graph without nodes of the undefined kind, every node of the normalized
\* graph was admitted, once, and every degree is 0.
C18_Complete ==
  (pc = "done" /\ \A n \in ListNodes(graph) : graph.kind[n] # "Undefined") =>
    /\ Admitted = ListNodes(graph)
    /\ DOMAIN dmap = ListNodes(graph)
    /\ \A n \in ListNodes(graph) :
         /\ dmap[n] = 0
         /\ Count(AllUsers(m_ExeResUsers, DOMAIN m_ExeResUsers), n) = 1

\* C18 witness: a run of several rounds has ended on a graph of operators,
\* a Load and a Store.
C18_Witness ==
  /\ pc = "done"
  /\ round >= 2
  /\ \A n \in ListNodes(graph) : graph.kind[n] # "Undefined"
  /\ \E l, st, n \in Admitted :
       graph.kind[l] = "Load" /\ graph.kind[st] = "Store" /\ graph.kind[n] = "Op"

\* every producer stands before the nodes of the list that read its output
Topological(g) ==
  \A n \in ListNodes(g) : \A k \in 1..Len(g.ins[n]) :
    LET p == ValNode(g.ins[n][k])
    IN p \notin {Null, ParamNode} => InList(g, p) /\ Pos(g.nodes, p) < Pos(g.nodes, n)

\* every external input and every external output has a consumer
BoundaryConsumed(g) ==
  /\ \A i \in 1..Len(g.inputs) : g.uses[g.inputs[i]] # <<>>
  /\ \A k \in 1..Len(g.ins[RetNode]) : g.uses[g.ins[RetNode][k]] # <<>>

\* C19 - Normalization preserves topological order: when the graph is in
\* topological order and its external values are consumed, it is in
\* topological order after InsertLoadStoreNode, the Loads and Stores
\* included.
C19_TopologicalKept ==
  [][(AtEntry /\ backend /\ pc' = "loop"
        /\ Topological(graph) /\ BoundaryConsumed(graph))
       => Topological(graph')]_vars

\* the users of userList that finish when c cycles pass
Finished(userList, c) ==
  {i \in 1..Len(userList) : userList[i].remainCycles = c}

\* C20 - Release count: a call of updateResList on a ledger with a user
\* takes from every class as many users as finish in the call, and takes at
\* least one user in all.
C20_ReleaseCount ==
  [][(lastOp' = "updateResList" /\ AllRemain(m_ExeResUsers) # {})
       => /\ DOMAIN m_ExeResUsers' = DOMAIN m_ExeResUsers
          /\ \A r \in DOMAIN m_ExeResUsers :
               Len(m_ExeResUsers'[r]) =
                 Len(m_ExeResUsers[r])
                   - Cardinality(Finished(m_ExeResUsers[r],
                                          Least(AllRemain(m_ExeResUsers))))
          /\ \E r \in DOMAIN m_ExeResUsers :
               Len(m_ExeResUsers'[r]) < Len(m_ExeResUsers[r])]_vars

\* C20 witness: a call of updateResList has released a user after a
\* positive number of cycles and left another user in the ledger.
C20_Witness ==
  /\ lastOp = "updateResList"
  /\ ret >= 1
  /\ \E r \in DOMAIN m_ExeResUsers : m_ExeResUsers[r] # <<>>
====
